---- MODULE Spec2Model ----
(***************************************************************************)
(* A model of the Bitcask storage engine of opal                           *)
(* (src/src/storage/bitcask.rs): the on-disk segments, the KeyDir, the     *)
(* per-segment statistics, the writer (put, delete, rollover, merge), the  *)
(* reader pool and recovery.                                               *)
(***************************************************************************)
EXTENDS Integers, Sequences, FiniteSets, TLC

VARIABLES
    conf,           \* Context.conf
    create_mode,    \* what log::create does with a path that already exists
    dir,            \* ids of the data files linked in the storage directory
    files,          \* id -> content (sequence of records) of every data file that
                    \* is linked or still held open by a reader cache
    hints,          \* id -> content of the hint file with that id
    keydir,         \* Context.keydir: key -> KeyDirEntry (domain: the live keys)
    stats,          \* Context.stats: id -> LogStatistics
    merged,         \* Context.merged
    active_fileid,  \* Writer.active_fileid
    written_bytes,  \* Writer.written_bytes
    writer_file,    \* the file Writer.writer appends to
    wcache,         \* Writer.readers: ids of the files the writer holds open
    readers,        \* Handle.readers: the queue of Reader contexts (each its cache)
    wth,            \* the thread inside Handle::put or Handle::delete, and where it is
    mth,            \* the merge task inside Writer::merge, and where it is
    rth,            \* the threads inside Handle::get, and where each is
    clock,          \* number of put, delete, merge and open calls so far (the time)
    expect,         \* history: key -> value of the last completed put, <<>> after a delete
    lastOp,         \* history: the last operation and what it returned
    task,           \* the background task inside merge_on_interval, and where it is
    server,         \* net::server: the permits of limit_connections, the handlers alive, the listener
    lastMerge,      \* history: S, first and last output id of the last merge; outs: the ids merges created as outputs
    created         \* history: ids of the data files log::create made for this instance, in order

vars == <<conf, create_mode, dir, files, hints, keydir, stats, merged, active_fileid, written_bytes,
          writer_file, wcache, readers, wth, mth, rth, clock, expect, lastOp,
          lastMerge, created, task, server>>

----------------------------------------------------------------------------
(* Bounds of the model *)

MaxOps == 4

(* net::server *)
MAX_CONNECTIONS == 128

MAX_BACKOFF == 64

Keys == {"a", "bb"}
Values == {"x", "yy"}

(* Option<Bytes>: <<>> is None, <<v>> is Some(v) *)
None == <<>>
Some(v) == <<v>>

(* Configurations the engine is opened with. Fractions are <<num, den>>. *)
Configs ==
    { [concurrency |-> 1, max_file_size |-> 60,
       trig_frag |-> <<0, 1>>, trig_dead_bytes |-> 1000,
       thr_frag |-> <<2, 5>>, thr_dead_bytes |-> 1000, thr_small_file |-> 0],
      [concurrency |-> 0, max_file_size |-> 30,
       trig_frag |-> <<0, 1>>, trig_dead_bytes |-> 1000,
       thr_frag |-> <<2, 5>>, thr_dead_bytes |-> 1000, thr_small_file |-> 1000] }

----------------------------------------------------------------------------
(* Records, statistics *)

Max(S) == CHOOSE x \in S : \A y \in S : y <= x

(* on-disk length of a DataFileEntry {tstamp, key, value}: length header, i64,
   length-prefixed key, option tag and length-prefixed value *)
EntryLen(key, value) ==
    8 + 8 + (8 + Len(key)) + (IF value = None THEN 1 ELSE 1 + 8 + Len(value[1]))

FileLen(f) == IF f = <<>> THEN 0 ELSE f[Len(f)].pos + f[Len(f)].len

DefaultStats == [live_keys |-> 0, dead_keys |-> 0, dead_bytes |-> 0]

StatsOf(st, id) == IF id \in DOMAIN st THEN st[id] ELSE DefaultStats

StatsSet(st, id, v) == [x \in DOMAIN st \cup {id} |-> IF x = id THEN v ELSE st[x]]

add_live_uncounted(s) == s

add_live(s) == [s EXCEPT !.live_keys = @ + 1]

add_dead_as_live(s, nbytes) == add_live(s)

add_dead_no_bytes(s, nbytes) == [s EXCEPT !.dead_keys = @ + 1]

add_dead(s, nbytes) == [s EXCEPT !.dead_keys = @ + 1, !.dead_bytes = @ + nbytes]

overwrite_keeps_live(s, nbytes) ==
    [s EXCEPT !.dead_keys = @ + 1, !.dead_bytes = @ + nbytes]

overwrite(s, nbytes) ==
    [s EXCEPT !.live_keys = @ - 1, !.dead_keys = @ + 1, !.dead_bytes = @ + nbytes]

(* fragmentation() > frac, frac = <<num, den>> *)
FragmentationAbove(s, frac) ==
    IF s.dead_keys = 0 THEN 0 > frac[1]
    ELSE s.dead_keys * frac[2] > frac[1] * (s.dead_keys + s.live_keys)

MapSet(f, k, v) == [x \in DOMAIN f \cup {k} |-> IF x = k THEN v ELSE f[x]]

MapRemove(f, ks) == [x \in DOMAIN f \ ks |-> f[x]]

(* the files that stay readable: linked ones and those the appender or a cache
   holds open (an unlinked file lives as long as a handle to it) *)
Held(wf, wc, rds) == {wf} \cup wc \cup UNION {rds[i] : i \in DOMAIN rds}

Retain(fs, d, wf, wc, rds) ==
    [x \in DOMAIN fs \cap (d \cup Held(wf, wc, rds)) |-> fs[x]]

(* a thread that is in no call *)
WriterIdle == [pc |-> "idle"]
MergeIdle == [pc |-> "idle"]
ReaderIdle == [pc |-> "idle", cache |-> {}, gets |-> 0]

(* the threads that call Handle::get *)
RThreads == {"r1", "r2"}

(* the Reader contexts: those in the queue and those a get has taken from it *)
Pool == Append(readers, UNION {rth[t].cache : t \in RThreads})

----------------------------------------------------------------------------
(* Log I/O *)

timestamp == clock + 1

(* What log::create may do with a path that already exists: open it empty,
   open it with its content kept, or fail with AlreadyExists. *)
CreateModes == {"truncate", "append", "exists"}

(* log::create of the data file of id *)
CreateData(d, fs, id) ==
    IF id \in d /\ create_mode = "exists"
    THEN [ok |-> FALSE, dir |-> d, files |-> fs]
    ELSE IF id \in d /\ create_mode = "append"
    THEN [ok |-> TRUE, dir |-> d, files |-> fs]
    ELSE [ok |-> TRUE, dir |-> d \cup {id}, files |-> MapSet(fs, id, <<>>)]

(* log::create of the hint file of id *)
CreateHint(hs, id) ==
    IF id \in DOMAIN hs /\ create_mode = "exists"
    THEN [ok |-> FALSE, hints |-> hs]
    ELSE IF id \in DOMAIN hs /\ create_mode = "append"
    THEN [ok |-> TRUE, hints |-> hs]
    ELSE [ok |-> TRUE, hints |-> MapSet(hs, id, <<>>)]

(* LogWriter::append: the record is written at the end of the file and flushed;
   the index (pos, len) is returned *)
LogAppend(f, tstamp, key, value) ==
    Append(f, [pos |-> FileLen(f), len |-> EntryLen(key, value),
               tstamp |-> tstamp, key |-> key, value |-> value])

(* the records of f stored at exactly (pos, len) *)
RecsAt(f, len, pos) == {i \in 1..Len(f) : f[i].pos = pos /\ f[i].len = len}

----------------------------------------------------------------------------
(* Writer *)

(* the KeyDirEntry Writer::write builds from the index the append returned *)
NewEntry_end_pos(fileid, len, pos, tstamp) ==
    [fileid |-> fileid, len |-> len, pos |-> pos + len, tstamp |-> tstamp]

NewEntry(fileid, len, pos, tstamp) ==
    [fileid |-> fileid, len |-> len, pos |-> pos, tstamp |-> tstamp]

(* DashMap::remove of a key *)
KeydirRemove_keeps(kd, key) == kd

KeydirRemove(kd, key) == MapRemove(kd, {key})

new_active_datafile_keeps_writer(w, fileid) ==
    [w EXCEPT !.active_fileid = fileid, !.written_bytes = 0]

(* Writer::new_active_datafile, on the writer's part w of the state: the active
   id is set first; when log::create fails the appender and the byte count stay *)
new_active_datafile(w, fileid) ==
    LET c == CreateData(w.dir, w.files, fileid)
    IN  IF c.ok
        THEN [w EXCEPT !.active_fileid = fileid,
                       !.writer_file = fileid,
                       !.dir = c.dir,
                       !.files = c.files,
                       !.written_bytes = 0,
                       !.created = Append(@, fileid)]
        ELSE [w EXCEPT !.active_fileid = fileid, !.ok = FALSE]

WriterState ==
    [dir |-> dir, files |-> files, stats |-> stats, active_fileid |-> active_fileid,
     writer_file |-> writer_file, written_bytes |-> written_bytes, created |-> created,
     ok |-> TRUE]

ShouldRoll_at_limit(nbytes, limit) == nbytes >= limit

(* Writer::write: the active file is left when the bytes written to it exceed
   max_file_size *)
ShouldRoll(nbytes, limit) == nbytes > limit

(* Writer::write: append, count the bytes, account the record in the active
   file's statistics, roll over last. Returns the writer's state and the entry. *)
write(tstamp, key, value) ==
    LET f      == files[writer_file]
        len    == EntryLen(key, value)
        entry  == NewEntry(active_fileid, len, FileLen(f), tstamp)
        s0     == StatsOf(stats, active_fileid)
        w1     == [WriterState EXCEPT
                     !.files = [files EXCEPT ![writer_file] =
                                    LogAppend(f, tstamp, key, value)],
                     !.written_bytes = written_bytes + len,
                     !.stats = StatsSet(stats, active_fileid,
                                   IF value # None THEN add_live(s0)
                                   ELSE add_dead(s0, len))]
        w2     == IF ShouldRoll(w1.written_bytes, conf.max_file_size)
                  THEN new_active_datafile(w1, active_fileid + 1)
                  ELSE w1
    IN  [w |-> w2, entry |-> entry]

(* the statistics after a KeyDir entry prev has been replaced or removed *)
StatsOverwrite(st, prev) ==
    StatsSet(st, prev.fileid, overwrite(StatsOf(st, prev.fileid), prev.len))

SetWriter(w) ==
    /\ dir' = w.dir
    /\ files' = Retain(w.files, w.dir, w.writer_file, wcache, Pool)
    /\ active_fileid' = w.active_fileid
    /\ writer_file' = w.writer_file
    /\ written_bytes' = w.written_bytes
    /\ created' = w.created

OpRec(op, key, value, ret) == [op |-> op, key |-> key, value |-> value, ret |-> ret]

(* Handle::put -> Writer::put *)
Put(key, value) ==
    /\ clock < MaxOps
    /\ LET r == write(timestamp, key, Some(value))
       IN  /\ SetWriter(r.w)
           /\ keydir' = IF r.w.ok THEN MapSet(keydir, key, r.entry) ELSE keydir
           /\ stats' = IF r.w.ok /\ key \in DOMAIN keydir
                        THEN StatsOverwrite(r.w.stats, keydir[key])
                        ELSE r.w.stats
           /\ expect' = IF r.w.ok THEN [expect EXCEPT ![key] = Some(value)] ELSE expect
           /\ lastOp' = OpRec(IF r.w.ok THEN "put" ELSE "error", key, Some(value), r.w.ok)
    /\ clock' = clock + 1
    /\ UNCHANGED <<conf, server, task, create_mode, wth, mth, rth, hints, merged, wcache, readers, lastMerge>>

(* Handle::delete -> Writer::delete *)
Delete(key) ==
    /\ clock < MaxOps
    /\ LET r == write(timestamp, key, None)
       IN  /\ SetWriter(r.w)
           /\ keydir' = IF r.w.ok THEN KeydirRemove(keydir, key) ELSE keydir
           /\ stats' = IF r.w.ok /\ key \in DOMAIN keydir
                        THEN StatsOverwrite(r.w.stats, keydir[key])
                        ELSE r.w.stats
           /\ expect' = IF r.w.ok THEN [expect EXCEPT ![key] = None] ELSE expect
           /\ lastOp' = IF r.w.ok THEN OpRec("delete", key, None, key \in DOMAIN keydir)
                                   ELSE OpRec("error", key, None, FALSE)
    /\ clock' = clock + 1
    /\ UNCHANGED <<conf, server, task, create_mode, wth, mth, rth, hints, merged, wcache, readers, lastMerge>>

----------------------------------------------------------------------------
(* Reader *)

Ok(value) == [ok |-> TRUE, value |-> value]
Err == [ok |-> FALSE, value |-> None]

(* Reader::get with the reader's cache, once the KeyDir entry e is found: the
   result, the cache afterwards and the key of the record that was decoded.
   LogDir::drop evicts the merged ids, LogDir::get opens (and keeps) the file,
   LogReader::at decodes the record at (pos, len). *)
ReadEntry(e, cache) ==
    LET c1 == cache \ merged
    IN  IF e.fileid \notin c1 /\ e.fileid \notin dir
        THEN [res |-> Err, cache |-> c1, rkey |-> ""]
        ELSE LET at  == RecsAt(files[e.fileid], e.len, e.pos)
                 rec == files[e.fileid][CHOOSE i \in at : TRUE]
             IN  [res   |-> IF at = {} THEN Err ELSE Ok(rec.value),
                  cache |-> c1 \cup {e.fileid},
                  rkey  |-> IF at = {} THEN "" ELSE rec.key]

(* KeyDir::get *)
Lookup(kd, key) == IF key \in DOMAIN kd THEN Some(kd[key]) ELSE None

ReaderGet(key, cache) ==
    LET found == Lookup(keydir, key)
    IN  IF found = None THEN [res |-> Ok(None), cache |-> cache]
        ELSE ReadEntry(found[1], cache)

(* Handle::get: take a reader from the queue, read, give the reader back *)
Get(key) ==
    /\ LET g == ReaderGet(key, Head(readers))
       IN  /\ readers' = Append(Tail(readers), g.cache)
           /\ files' = Retain(files, dir, writer_file, wcache, readers')
    /\ UNCHANGED <<conf, server, task, create_mode, wth, mth, rth, dir, hints, keydir, stats, merged, active_fileid, written_bytes,
                   writer_file, wcache, clock, expect, lastOp, lastMerge, created>>

(* what Handle::get(key) returns in the current state *)
GetResult(key) == ReaderGet(key, Head(readers)).res

----------------------------------------------------------------------------
(* Merge *)

can_merge_at_trigger ==
    \E id \in DOMAIN stats :
        \/ stats[id].dead_bytes >= conf.trig_dead_bytes
        \/ FragmentationAbove(stats[id], conf.trig_frag)

(* Context::can_merge, at a time inside the merge window *)
can_merge ==
    \E id \in DOMAIN stats :
        \/ stats[id].dead_bytes > conf.trig_dead_bytes
        \/ FragmentationAbove(stats[id], conf.trig_frag)

(* Context::fileids_to_merge; fs::metadata fails for a file with statistics
   that is not on disk (FilesOnDisk) *)
FilesOnDisk == DOMAIN stats \subseteq dir

fileids_to_merge ==
    {id \in DOMAIN stats :
        \/ stats[id].dead_bytes > conf.thr_dead_bytes
        \/ FragmentationAbove(stats[id], conf.thr_frag)
        \/ FileLen(files[id]) < conf.thr_small_file}

(* the orders in which KeyDir::iter_mut may visit the keys of ks *)
Orders(ks) ==
    {o \in [1..Cardinality(ks) -> ks] : \A i, j \in DOMAIN o : o[i] = o[j] => i = j}

(* log::create of the data file, then of the hint file, of a merge output *)
NewMergeFile(m, id) ==
    LET c == CreateData(m.dir, m.files, id)
        h == CreateHint(m.hints, id)
    IN  IF ~c.ok THEN [m EXCEPT !.merge_fileid = id, !.merge_pos = 0, !.ok = FALSE]
        ELSE [m EXCEPT !.merge_fileid = id,
                       !.merge_pos = 0,
                       !.dir = c.dir,
                       !.files = c.files,
                       !.hints = h.hints,
                       !.created = Append(@, id),
                       !.ok = h.ok]

(* the KeyDir entry e after its record went to (id, merge_pos) *)
Repointed_old_pos(e, id, nbytes, merge_pos) ==
    [fileid |-> id, len |-> nbytes, pos |-> e.pos, tstamp |-> e.tstamp]

Repointed(e, id, nbytes, merge_pos) ==
    [fileid |-> id, len |-> nbytes, pos |-> merge_pos, tstamp |-> e.tstamp]

HintOf_no_tstamp(e, key) == [tstamp |-> 0, len |-> e.len, pos |-> e.pos, key |-> key]

(* the HintFileEntry Writer::merge builds from the repointed KeyDir entry *)
HintOf(e, key) == [tstamp |-> e.tstamp, len |-> e.len, pos |-> e.pos, key |-> key]

(* the statistics without those of the merged files *)
RemoveStats_keeps(st, S) == st

MergedInsert_skipped(mg, S) == mg

(* the ids of the files created between two values of the creation record *)
NewOuts(c0, c1) == {c1[i] : i \in (Len(c0) + 1)..Len(c1)}

(* the history of the merges after the files m.created were created by one *)
MergeOuts(m) == [lastMerge EXCEPT !.outs = @ \cup NewOuts(created, m.created)]

(* Writer::merge: every selected id joins the merged set *)
MergedInsert(mg, S) == mg \cup S

RemoveStats(st, S) == MapRemove(st, S)

(* one turn of the loop of Writer::merge, for the KeyDir entry of key: the copy
   fails when the file cannot be opened or holds no record at (pos, len) *)
MergeCopy(m, key) ==
    LET e      == m.keydir[key]
        opened == e.fileid \in m.wcache \cup m.dir
        src    == IF opened THEN m.files[e.fileid] ELSE <<>>
        at     == RecsAt(src, e.len, e.pos)
        rec    == src[CHOOSE i \in at : TRUE]
        nbytes == e.len
        id     == m.merge_fileid
        m1     == [m EXCEPT
                     !.files[id] = Append(@, [rec EXCEPT !.pos = FileLen(m.files[id])]),
                     !.keydir[key] = Repointed(e, id, nbytes, m.merge_pos),
                     !.stats = StatsSet(@, id, add_live(StatsOf(@, id))),
                     !.hints[id] = Append(@, HintOf(Repointed(e, id, nbytes, m.merge_pos),
                                                    key)),
                     !.merge_pos = @ + nbytes,
                     !.wcache = @ \cup {e.fileid}]
    IN  IF at = {}
        THEN [m EXCEPT !.ok = FALSE,
                       !.wcache = IF opened THEN @ \cup {e.fileid} ELSE @]
        ELSE IF m1.merge_pos > conf.max_file_size
        THEN NewMergeFile(m1, id + 1)
        ELSE m1

RECURSIVE MergeLoop(_, _)
MergeLoop(m, order) ==
    IF order = <<>> \/ ~m.ok THEN m
    ELSE MergeLoop(MergeCopy(m, Head(order)), Tail(order))

MergeStart ==
    NewMergeFile([keydir |-> keydir, files |-> files, hints |-> hints, dir |-> dir,
                  stats |-> stats, wcache |-> wcache, created |-> created,
                  merge_fileid |-> 0, merge_pos |-> 0, ok |-> TRUE],
                 active_fileid + 1)

(* Writer::new_active_datafile(merge_fileid + 1) at the end of Writer::merge *)
MergeNewActive(m, S) ==
    new_active_datafile(
        [dir |-> m.dir \ S, files |-> m.files, stats |-> RemoveStats(m.stats, S),
         active_fileid |-> active_fileid, writer_file |-> writer_file,
         written_bytes |-> written_bytes, created |-> m.created, ok |-> TRUE],
        m.merge_fileid + 1)

(* the end of Writer::merge: the writer's cache drops S, S joins the merged set,
   the statistics and the files of S go, the active file moves past the output *)
MergeFinish(m, S) ==
    LET w == MergeNewActive(m, S)
    IN  /\ keydir' = m.keydir
        /\ hints' = MapRemove(m.hints, S)
        /\ wcache' = m.wcache \ S
        /\ merged' = MergedInsert(merged, S)
        /\ stats' = w.stats
        /\ dir' = w.dir
        /\ active_fileid' = w.active_fileid
        /\ writer_file' = w.writer_file
        /\ written_bytes' = w.written_bytes
        /\ created' = w.created
        /\ files' = Retain(w.files, w.dir, w.writer_file, wcache', Pool)

(* Server::new: the semaphore holds MAX_CONNECTIONS permits, no handler is
   alive, Context::listen is about to take a permit; held: the listener has
   taken a permit that no handler has received; backoff: the local of
   Context::accept *)
ServerNew ==
    [permits |-> MAX_CONNECTIONS, handlers |-> 0, pc |-> "acquire", held |-> FALSE,
     backoff |-> 1]

(* merge_on_interval as Bitcask::open spawns it: the task waits in select! for
   the sleep or for the closing signal; the Bitcask object is not dropped, no
   merge error was logged *)
TaskStart == [pc |-> "select", signalled |-> FALSE, logged |-> FALSE]

(* merge_on_interval: Writer::merge returned an error, error! logs it and the
   loop goes on *)
TaskLogged == [task EXCEPT !.logged = TRUE]

(* Writer::merge left by `?` inside the loop: what the loop did so far stays,
   the buffered output is flushed when the writers are dropped *)
MergeLeave(m) ==
    /\ keydir' = m.keydir
    /\ hints' = m.hints
    /\ wcache' = m.wcache
    /\ stats' = m.stats
    /\ dir' = m.dir
    /\ created' = m.created
    /\ files' = Retain(m.files, m.dir, writer_file, wcache', Pool)
    /\ UNCHANGED <<merged, active_fileid, writer_file, written_bytes>>

(* merge_on_interval: a check that finds a trigger met runs Writer::merge *)
Merge ==
    /\ clock < MaxOps
    /\ can_merge
    /\ IF ~FilesOnDisk
       THEN /\ lastOp' = OpRec("error", "", None, FALSE)
            /\ UNCHANGED <<keydir, hints, wcache, stats, dir, created, files, merged,
                           active_fileid, writer_file, written_bytes, lastMerge>>
       ELSE LET S == fileids_to_merge
            IN  \E order \in Orders({k \in DOMAIN keydir : keydir[k].fileid \in S}) :
                  LET m == MergeLoop(MergeStart, order)
                  IN  IF m.ok
                      THEN /\ MergeFinish(m, S)
                           /\ lastMerge' = [S |-> S, first |-> active_fileid + 1,
                                            last |-> m.merge_fileid,
                                            outs |-> MergeOuts(m).outs]
                           /\ lastOp' = IF MergeNewActive(m, S).ok
                                        THEN OpRec("merge", "", None, TRUE)
                                        ELSE OpRec("error", "", None, FALSE)
                      ELSE /\ MergeLeave(m)
                           /\ lastOp' = OpRec("error", "", None, FALSE)
                           /\ lastMerge' = MergeOuts(m)
    /\ clock' = clock + 1
    /\ task' = IF lastOp'.op = "error" THEN TaskLogged ELSE task
    /\ UNCHANGED <<conf, server, create_mode, wth, mth, rth, readers, expect>>

(* Writer::merge stopped by an I/O error: at the creation of the first hint
   file, at the copy of the record after n turns of the loop, or at the removal
   of the data file j *)
MergeAbort ==
    /\ clock < MaxOps
    /\ can_merge
    /\ FilesOnDisk
    /\ LET S == fileids_to_merge
       IN  \E order \in Orders({k \in DOMAIN keydir : keydir[k].fileid \in S}) :
             \/ /\ MergeLeave([MergeStart EXCEPT !.hints = hints])
             \/ \E n \in 0..(Len(order) - 1) :
                  MergeLeave(MergeLoop(MergeStart, SubSeq(order, 1, n)))
             \/ \E j \in S :
                  LET m    == MergeLoop(MergeStart, order)
                      done == {i \in S : i < j}
                  IN  /\ m.ok
                      /\ keydir' = m.keydir
                      /\ wcache' = m.wcache \ S
                      /\ merged' = MergedInsert(merged, S)
                      /\ stats' = RemoveStats(m.stats, done \cup {j})
                      /\ hints' = MapRemove(m.hints, done \cup {j})
                      /\ dir' = m.dir \ done
                      /\ created' = m.created
                      /\ files' = Retain(m.files, dir', writer_file, wcache', Pool)
                      /\ UNCHANGED <<active_fileid, writer_file, written_bytes>>
    /\ clock' = clock + 1
    /\ lastOp' = OpRec("error", "", None, FALSE)
    /\ lastMerge' = [lastMerge EXCEPT !.outs = @ \cup NewOuts(created, created')]
    /\ task' = TaskLogged
    /\ UNCHANGED <<conf, server, create_mode, wth, mth, rth, readers, expect>>

----------------------------------------------------------------------------
(* Recovery *)

(* populate_keydir_with_hintfile, on r = [keydir, stats] *)
RECURSIVE populate_keydir_with_hintfile(_, _, _)
populate_keydir_with_hintfile(r, fileid, hs) ==
    IF hs = <<>> THEN r
    ELSE LET h  == Head(hs)
             st == StatsSet(r.stats, fileid, add_live(StatsOf(r.stats, fileid)))
         IN  populate_keydir_with_hintfile(
                 [keydir |-> MapSet(r.keydir, h.key,
                                 [fileid |-> fileid, len |-> h.len, pos |-> h.pos,
                                  tstamp |-> h.tstamp]),
                  stats  |-> IF h.key \in DOMAIN r.keydir
                             THEN StatsOverwrite(st, r.keydir[h.key])
                             ELSE st],
                 fileid, Tail(hs))

(* populate_keydir_with_datafile, on r = [keydir, stats] *)
RECURSIVE populate_keydir_with_datafile(_, _, _)
populate_keydir_with_datafile(r, fileid, recs) ==
    IF recs = <<>> THEN r
    ELSE LET d  == Head(recs)
             s0 == StatsOf(r.stats, fileid)
         IN  populate_keydir_with_datafile(
                 IF d.value = None
                 THEN [r EXCEPT !.stats = StatsSet(@, fileid, add_dead(s0, d.len))]
                 ELSE LET st == StatsSet(r.stats, fileid, add_live(s0))
                      IN  [keydir |-> MapSet(r.keydir, d.key,
                                         [fileid |-> fileid, len |-> d.len,
                                          pos |-> d.pos, tstamp |-> d.tstamp]),
                           stats  |-> IF d.key \in DOMAIN r.keydir
                                      THEN StatsOverwrite(st, r.keydir[d.key])
                                      ELSE st],
                 fileid, Tail(recs))

(* the content of a hint file that cannot be read (an I/O error that is not
   NotFound, or an entry that cannot be decoded) *)
Unreadable == <<[unreadable |-> TRUE]>>

(* how populate_keydir_with_hintfile ends for fileid *)
HintRead(fileid) ==
    IF fileid \notin DOMAIN hints THEN "not_found"
    ELSE IF hints[fileid] = Unreadable THEN "other"
    ELSE "ok"

Fallback_on_any_error(e) == IF e = "ok" THEN "hint" ELSE "data"

(* the match of rebuild_storage on that end: the hint file was applied, the
   data file is read, or rebuild_storage returns the error *)
Fallback(e) == IF e = "ok" THEN "hint" ELSE IF e = "not_found" THEN "data" ELSE "fail"

(* the loop of rebuild_storage over the sorted file ids: the hint file if there
   is one, else the data file; used is history: what was applied for which id *)
RECURSIVE RebuildFrom(_, _)
RebuildFrom(r, ids) ==
    IF ids = {} \/ ~r.ok THEN r
    ELSE LET fileid == CHOOSE x \in ids : \A y \in ids : x <= y
             way    == Fallback(HintRead(fileid))
             r0     == [keydir |-> r.keydir, stats |-> r.stats]
             p      == IF way = "hint"
                       THEN populate_keydir_with_hintfile(r0, fileid, hints[fileid])
                       ELSE populate_keydir_with_datafile(r0, fileid, files[fileid])
         IN  RebuildFrom(
                 IF way = "fail" THEN [r EXCEPT !.ok = FALSE]
                 ELSE [keydir |-> p.keydir, stats |-> p.stats, ok |-> TRUE,
                       used |-> Append(r.used, <<fileid, way>>)],
                 ids \ {fileid})

EmptyMap == [x \in {} |-> 0]

ActiveAfter_most_recent(d) == IF d = {} THEN 0 ELSE Max(d)

(* the active file id rebuild_storage returns for the file ids d *)
ActiveAfter(d) == IF d = {} THEN 0 ELSE Max(d) + 1

rebuild_storage ==
    LET r == RebuildFrom([keydir |-> EmptyMap, stats |-> EmptyMap, ok |-> TRUE,
                          used |-> <<>>], dir)
    IN  [keydir |-> r.keydir, stats |-> r.stats, active_fileid |-> ActiveAfter(dir),
         ok |-> r.ok, used |-> r.used]

NewReaders_as_given(c) == [i \in 1..c.concurrency |-> {}]

(* the reader queue of Bitcask::open: max(concurrency, 1) readers, empty caches *)
NewReaders(c) ==
    [i \in 1..(IF c.concurrency > 0 THEN c.concurrency ELSE c.concurrency + 1) |-> {}]

(* Bitcask::open on the directory as it is *)
Recover ==
    /\ LET r == rebuild_storage
           c == CreateData(dir, files, r.active_fileid)
       IN  /\ keydir' = r.keydir
           /\ stats' = r.stats
           /\ active_fileid' = r.active_fileid
           /\ writer_file' = r.active_fileid
           /\ dir' = c.dir
           /\ readers' = NewReaders(conf)
           /\ files' = Retain(c.files, c.dir, r.active_fileid, {}, readers')
           /\ created' = <<r.active_fileid>>
    /\ written_bytes' = 0
    /\ merged' = {}
    /\ wcache' = {}

(* the Bitcask is dropped and Bitcask::open runs on the same directory, with a
   background task of its own *)
Reopen ==
    /\ clock < MaxOps
    /\ Recover
    /\ clock' = clock + 1
    /\ lastOp' = OpRec("open", "", None, TRUE)
    /\ task' = TaskStart
    /\ UNCHANGED <<conf, server, create_mode, wth, mth, rth, hints, expect, lastMerge>>

----------------------------------------------------------------------------
(* The engine used from one thread: every operation runs to its end *)

(* the state after Bitcask::open on an empty directory *)
Opened(configs) ==
    /\ conf \in configs
    /\ dir = {0}
    /\ files = [x \in {0} |-> <<>>]
    /\ hints = EmptyMap
    /\ keydir = EmptyMap
    /\ stats = EmptyMap
    /\ merged = {}
    /\ active_fileid = 0
    /\ written_bytes = 0
    /\ writer_file = 0
    /\ wcache = {}
    /\ readers = NewReaders(conf)
    /\ clock = 0
    /\ expect = [k \in Keys |-> None]
    /\ lastOp = OpRec("open", "", None, TRUE)
    /\ lastMerge = [S |-> {}, first |-> 0, last |-> 0, outs |-> {}]
    /\ created = <<0>>
    /\ wth = WriterIdle
    /\ mth = MergeIdle
    /\ rth = [t \in RThreads |-> ReaderIdle]
    /\ task = TaskStart
    /\ server = ServerNew

(* without I/O errors no path is created twice, whatever log::create does then *)
Init ==
    /\ create_mode = "truncate"
    /\ Opened(Configs)

Next ==
    \/ \E k \in Keys, v \in Values : Put(k, v)
    \/ \E k \in Keys : Delete(k)
    \/ \E k \in Keys : Get(k)
    \/ Merge
    \/ Reopen

Spec == Init /\ [][Next]_vars

----------------------------------------------------------------------------
(* The engine with merges that an I/O error stops *)

InitFault ==
    /\ create_mode \in CreateModes
    /\ Opened(Configs)

NextFault ==
    \/ Next
    \/ MergeAbort

SpecFault == InitFault /\ [][NextFault]_vars

----------------------------------------------------------------------------
(* The engine used from several threads: one thread in Handle::put and
   Handle::delete, the threads RThreads in Handle::get, the merge task. A step
   is what a thread does between two points where the others can see or change
   what it works on. *)

MaxGets == 1

ConcConfigs ==
    { [concurrency |-> 2, max_file_size |-> 60,
       trig_frag |-> <<0, 1>>, trig_dead_bytes |-> 1000,
       thr_frag |-> <<2, 5>>, thr_dead_bytes |-> 1000, thr_small_file |-> 0] }

LockFree_always == TRUE

(* Handle.writer, the mutex around the Writer *)
LockFree == wth.pc = "idle" /\ mth.pc = "idle"

(* a shard that stays locked though no get holds a Ref into it *)
Guarded_held(key) == TRUE

(* a get holds the Ref that KeyDir::get returned for key: the shard of key is
   read-locked until the read is over *)
Guarded(key) == \E t \in RThreads : rth[t].pc = "found" /\ rth[t].key = key

(* history: a write of value to key starts, so the gets of key that have not
   read yet may return it *)
Widen(r, key, value) ==
    [t \in RThreads |->
        IF r[t].pc = "found" /\ r[t].key = key
        THEN [r[t] EXCEPT !.acc = @ \cup {value}]
        ELSE r[t]]

(* Handle::put and Handle::delete up to the return of Writer::write: the lock
   is taken, the record is appended, the active file may roll over *)
WriterWrite(key, value) ==
    /\ clock < MaxOps
    /\ LockFree
    /\ LET r == write(timestamp, key, value)
       IN  /\ SetWriter(r.w)
           /\ stats' = r.w.stats
           /\ wth' = IF r.w.ok
                     THEN [pc |-> "written", key |-> key, value |-> value,
                           entry |-> r.entry]
                     ELSE WriterIdle
    /\ rth' = Widen(rth, key, value)
    /\ clock' = clock + 1
    /\ UNCHANGED <<conf, server, task, create_mode, hints, keydir, merged, wcache, readers, mth,
                   expect, lastOp, lastMerge>>

PutWrite(key, value) == WriterWrite(key, Some(value))

DeleteWrite(key) == WriterWrite(key, None)

(* the rest of Writer::put: KeyDir::insert waits for the shard, the statistics
   of the replaced entry follow, the call returns and the lock is free *)
PutInsert ==
    /\ wth.pc = "written"
    /\ wth.value # None
    /\ ~Guarded(wth.key)
    /\ keydir' = MapSet(keydir, wth.key, wth.entry)
    /\ stats' = IF wth.key \in DOMAIN keydir
                THEN StatsOverwrite(stats, keydir[wth.key])
                ELSE stats
    /\ expect' = [expect EXCEPT ![wth.key] = wth.value]
    /\ wth' = WriterIdle
    /\ UNCHANGED <<conf, server, task, create_mode, dir, files, hints, merged, active_fileid,
                   written_bytes, writer_file, wcache, readers, mth, rth, clock,
                   lastOp, lastMerge, created>>

(* the rest of Writer::delete *)
DeleteRemove ==
    /\ wth.pc = "written"
    /\ wth.value = None
    /\ ~Guarded(wth.key)
    /\ keydir' = KeydirRemove(keydir, wth.key)
    /\ stats' = IF wth.key \in DOMAIN keydir
                THEN StatsOverwrite(stats, keydir[wth.key])
                ELSE stats
    /\ expect' = [expect EXCEPT ![wth.key] = None]
    /\ wth' = WriterIdle
    /\ UNCHANGED <<conf, server, task, create_mode, dir, files, hints, merged, active_fileid,
                   written_bytes, writer_file, wcache, readers, mth, rth, clock,
                   lastOp, lastMerge, created>>

(* Handle::get up to KeyDir::get: a Reader is taken from the queue and the key
   is looked up. acc is history: the value of the last write of key that has
   returned and the value of the write of key that is under way. *)
GetLookup(t, key) ==
    /\ rth[t].pc = "idle"
    /\ rth[t].gets < MaxGets
    /\ readers # <<>>
    /\ LET found == Lookup(keydir, key)
           acc   == {expect[key]} \cup
                    (IF wth.pc = "written" /\ wth.key = key THEN {wth.value} ELSE {})
       IN  rth' = [rth EXCEPT ![t] =
                     IF found = None
                     THEN [pc |-> "done", key |-> key, cache |-> Head(readers),
                           gets |-> @.gets + 1, acc |-> acc,
                           res |-> Ok(None), rkey |-> key]
                     ELSE [pc |-> "found", key |-> key, cache |-> Head(readers),
                           gets |-> @.gets + 1, acc |-> acc, e |-> found[1]]]
    /\ readers' = Tail(readers)
    /\ UNCHANGED <<conf, server, task, create_mode, dir, files, hints, keydir, stats, merged,
                   active_fileid, written_bytes, writer_file, wcache, wth, mth, clock,
                   expect, lastOp, lastMerge, created>>

(* the arm of Reader::get for an entry that was found; the Ref is dropped *)
GetRead(t) ==
    /\ rth[t].pc = "found"
    /\ LET g == ReadEntry(rth[t].e, rth[t].cache)
       IN  rth' = [rth EXCEPT ![t] =
                     [pc |-> "done", key |-> @.key, cache |-> g.cache,
                      gets |-> @.gets, acc |-> @.acc, res |-> g.res, rkey |-> g.rkey]]
    /\ files' = Retain(files, dir, writer_file, wcache,
                       Append(readers, UNION {rth'[u].cache : u \in RThreads}))
    /\ UNCHANGED <<conf, server, task, create_mode, dir, hints, keydir, stats, merged, active_fileid,
                   written_bytes, writer_file, wcache, readers, wth, mth, clock,
                   expect, lastOp, lastMerge, created>>

GetReturn_keeps_reader(t) ==
    /\ rth[t].pc = "done"
    /\ rth' = [rth EXCEPT ![t] = [ReaderIdle EXCEPT !.gets = rth[t].gets]]
    /\ UNCHANGED <<conf, server, task, create_mode, dir, files, hints, keydir, stats, merged,
                   active_fileid, written_bytes, writer_file, wcache, readers, wth,
                   mth, clock, expect, lastOp, lastMerge, created>>

(* the Reader goes back to the queue and Handle::get returns rth[t].res *)
GetReturn(t) ==
    /\ rth[t].pc = "done"
    /\ readers' = Append(readers, rth[t].cache)
    /\ rth' = [rth EXCEPT ![t] = [ReaderIdle EXCEPT !.gets = rth[t].gets]]
    /\ UNCHANGED <<conf, server, task, create_mode, dir, files, hints, keydir, stats, merged,
                   active_fileid, written_bytes, writer_file, wcache, wth, mth, clock,
                   expect, lastOp, lastMerge, created>>

InitRW ==
    /\ create_mode = "truncate"
    /\ Opened(ConcConfigs)

NextRW ==
    \/ \E k \in Keys, v \in Values : PutWrite(k, v)
    \/ \E k \in Keys : DeleteWrite(k)
    \/ PutInsert
    \/ DeleteRemove
    \/ \E t \in RThreads, k \in Keys : GetLookup(t, k)
    \/ \E t \in RThreads : GetRead(t)
    \/ \E t \in RThreads : GetReturn(t)

SpecRW == InitRW /\ [][NextRW]_vars

(* The state Writer::merge works on, with the output file as the task sees
   it: what is on disk and, after it, what its BufWriter still holds. The
   records of a model are shorter than the buffer, so the BufWriter writes
   only when it is dropped. *)
MergeView ==
    [keydir |-> keydir,
     files |-> [files EXCEPT ![mth.merge_fileid] = @ \o mth.buf],
     hints |-> hints, dir |-> dir, stats |-> stats, wcache |-> wcache,
     created |-> created, merge_fileid |-> mth.merge_fileid,
     merge_pos |-> mth.merge_pos, ok |-> TRUE]

(* Writer::merge up to the loop: the lock is taken, the files are selected, the
   first output file and its hint file are created, KeyDir::iter_mut starts *)
MergeBegin ==
    /\ clock < MaxOps
    /\ LockFree
    /\ can_merge
    /\ FilesOnDisk
    /\ LET m == MergeStart
       IN  /\ m.ok
           /\ \E order \in Orders(DOMAIN keydir) :
                mth' = [pc |-> "loop", S |-> fileids_to_merge,
                        todo |-> fileids_to_merge, rest |-> order,
                        merge_fileid |-> m.merge_fileid, merge_pos |-> m.merge_pos,
                        buf |-> <<>>]
           /\ dir' = m.dir
           /\ files' = Retain(m.files, m.dir, writer_file, wcache, Pool)
           /\ hints' = m.hints
           /\ created' = m.created
           /\ lastMerge' = MergeOuts(m)
    /\ clock' = clock + 1
    /\ task' = [task EXCEPT !.pc = "select"]
    /\ UNCHANGED <<conf, server, create_mode, keydir, stats, merged, active_fileid,
                   written_bytes, writer_file, wcache, readers, wth, rth, expect,
                   lastOp>>

(* one turn of the loop: iter_mut waits for the shard of the next key; an entry
   in a selected file is copied into the BufWriter and repointed, its hint is
   appended; a full output file is left (its BufWriter is dropped, so written) *)
MergeTurn ==
    /\ mth.pc = "loop"
    /\ mth.rest # <<>>
    /\ ~Guarded(Head(mth.rest))
    /\ LET key == Head(mth.rest)
           id  == mth.merge_fileid
           m   == IF keydir[key].fileid \in mth.S THEN MergeCopy(MergeView, key)
                  ELSE MergeView
           buf == IF m.merge_fileid = id /\ m.ok
                  THEN SubSeq(m.files[id], Len(files[id]) + 1, Len(m.files[id]))
                  ELSE <<>>
           fs  == IF m.merge_fileid = id /\ m.ok
                  THEN [m.files EXCEPT ![id] = files[id]]
                  ELSE m.files
       IN  /\ mth' = IF m.ok
                     THEN [mth EXCEPT !.rest = Tail(@), !.merge_fileid = m.merge_fileid,
                                      !.merge_pos = m.merge_pos, !.buf = buf]
                     ELSE MergeIdle
           /\ keydir' = m.keydir
           /\ stats' = m.stats
           /\ hints' = m.hints
           /\ wcache' = m.wcache
           /\ dir' = m.dir
           /\ created' = m.created
           /\ lastMerge' = MergeOuts(m)
           /\ files' = Retain(fs, m.dir, writer_file, wcache', Pool)
    /\ task' = IF mth' = MergeIdle THEN TaskLogged ELSE task
    /\ UNCHANGED <<conf, server, create_mode, merged, active_fileid, written_bytes, writer_file,
                   readers, wth, rth, clock, expect, lastOp>>

(* Writer::merge after the loop: the writer's cache drops the selected files,
   the BufWriter is dropped (so written), the selected files join the merged
   set *)
MergeMark ==
    /\ mth.pc = "loop"
    /\ mth.rest = <<>>
    /\ wcache' = wcache \ mth.S
    /\ merged' = MergedInsert(merged, mth.S)
    /\ files' = Retain(MergeView.files, dir, writer_file, wcache', Pool)
    /\ mth' = [mth EXCEPT !.pc = "remove", !.buf = <<>>]
    /\ UNCHANGED <<conf, server, task, create_mode, dir, hints, keydir, stats, active_fileid,
                   written_bytes, writer_file, readers, wth, rth, clock, expect,
                   lastOp, lastMerge, created>>

(* one turn of the removal loop, in the order of the vector of selected ids
   (the order of a DashMap iteration): the statistics of the file go, its hint
   file and its data file are unlinked *)
MergeRemove ==
    /\ mth.pc = "remove"
    /\ \E id \in mth.todo :
         /\ stats' = RemoveStats(stats, {id})
         /\ hints' = MapRemove(hints, {id})
         /\ dir' = dir \ {id}
         /\ files' = Retain(files, dir', writer_file, wcache, Pool)
         /\ mth' = [mth EXCEPT !.todo = @ \ {id}]
    /\ UNCHANGED <<conf, server, task, create_mode, keydir, merged, active_fileid, written_bytes,
                   writer_file, wcache, readers, wth, rth, clock, expect, lastOp,
                   lastMerge, created>>

(* the end of Writer::merge: the active file moves past the output, the lock
   is free *)
MergeEnd ==
    /\ mth.pc = "remove"
    /\ mth.todo = {}
    /\ MergeFinish(MergeView, {})
    /\ mth' = MergeIdle
    /\ UNCHANGED <<conf, server, task, create_mode, readers, wth, rth, clock, expect, lastOp, lastMerge>>

NextConc ==
    \/ NextRW
    \/ MergeBegin
    \/ MergeTurn
    \/ MergeMark
    \/ MergeRemove
    \/ MergeEnd

SpecConc == InitRW /\ [][NextConc]_vars

----------------------------------------------------------------------------
(* The engine with fewer Reader contexts than threads that call get *)

(* concurrency 0: Bitcask::open still makes one Reader *)
PoolConfigs ==
    {[concurrency |-> 0, max_file_size |-> 60, trig_frag |-> <<0, 1>>,
      trig_dead_bytes |-> 1000, thr_frag |-> <<2, 5>>, thr_dead_bytes |-> 1000,
      thr_small_file |-> 0]}

InitPool ==
    /\ create_mode = "truncate"
    /\ Opened(PoolConfigs)

SpecPool == InitPool /\ [][NextConc]_vars

(* The loop of Handle::get, turn by turn, for threads that call get again and
   again while puts go on. *)

(* the turns after which Backoff::spin stops lengthening its pause *)
SpinLimit == 1

(* Handle::get is called: Backoff::new *)
SpinCall(t, key) ==
    /\ rth[t].pc = "idle"
    /\ rth' = [rth EXCEPT ![t] = [pc |-> "spin", key |-> key, cache |-> {},
                                  gets |-> @.gets, step |-> 0]]
    /\ UNCHANGED <<conf, server, task, create_mode, dir, files, hints, keydir, stats, merged,
                   active_fileid, written_bytes, writer_file, wcache, readers, wth,
                   mth, clock, expect, lastOp, lastMerge, created>>

(* a turn of the loop in which readers.pop returns a Reader: Reader::get up to
   KeyDir::get *)
SpinPop(t) ==
    /\ rth[t].pc = "spin"
    /\ readers # <<>>
    /\ LET key   == rth[t].key
           found == Lookup(keydir, key)
       IN  rth' = [rth EXCEPT ![t] =
                     IF found = None
                     THEN [pc |-> "done", key |-> key, cache |-> Head(readers),
                           gets |-> @.gets, acc |-> {expect[key]},
                           res |-> Ok(None), rkey |-> key]
                     ELSE [pc |-> "found", key |-> key, cache |-> Head(readers),
                           gets |-> @.gets, acc |-> {expect[key]}, e |-> found[1]]]
    /\ readers' = Tail(readers)
    /\ UNCHANGED <<conf, server, task, create_mode, dir, files, hints, keydir, stats, merged,
                   active_fileid, written_bytes, writer_file, wcache, wth, mth, clock,
                   expect, lastOp, lastMerge, created>>

(* a turn of the loop in which readers.pop returns None: backoff.spin *)
SpinMiss(t) ==
    /\ rth[t].pc = "spin"
    /\ readers = <<>>
    /\ rth' = [rth EXCEPT ![t].step = IF @ < SpinLimit THEN @ + 1 ELSE @]
    /\ UNCHANGED <<conf, server, task, create_mode, dir, files, hints, keydir, stats, merged,
                   active_fileid, written_bytes, writer_file, wcache, readers, wth,
                   mth, clock, expect, lastOp, lastMerge, created>>

NextSpin ==
    \/ \E k \in Keys, v \in Values : Put(k, v)
    \/ \E t \in RThreads, k \in Keys : SpinCall(t, k)
    \/ \E t \in RThreads : SpinPop(t)
    \/ \E t \in RThreads : SpinMiss(t)
    \/ \E t \in RThreads : GetRead(t)
    \/ \E t \in RThreads : GetReturn(t)

(* every thread goes on; a get that finds a Reader in the queue again and
   again takes one in the end *)
FairSpin ==
    \A t \in RThreads :
        /\ WF_vars(GetRead(t))
        /\ WF_vars(GetReturn(t))
        /\ WF_vars(SpinMiss(t))
        /\ SF_vars(SpinPop(t))

SpecSpin == InitPool /\ [][NextSpin]_vars /\ FairSpin

----------------------------------------------------------------------------
(* The engine over a directory whose hint files may be damaged between a close
   and an open *)

(* there is an engine: the last Bitcask::open returned one *)
Running == lastOp.op # "closed"

(* a hint file becomes unreadable *)
HintDamage ==
    /\ \E id \in DOMAIN hints \cap dir :
         /\ hints[id] # Unreadable
         /\ hints' = [hints EXCEPT ![id] = Unreadable]
    /\ UNCHANGED <<conf, server, task, create_mode, dir, files, keydir, stats, merged, active_fileid,
                   written_bytes, writer_file, wcache, readers, wth, mth, rth, clock,
                   expect, lastOp, lastMerge, created>>

(* the Bitcask, if there is one, is dropped and Bitcask::open runs: it returns
   the error of rebuild_storage, or an engine *)
OpenTry ==
    /\ clock < MaxOps
    /\ clock' = clock + 1
    /\ IF rebuild_storage.ok
       THEN /\ Recover
            /\ lastOp' = OpRec("open", "", None, TRUE)
            /\ UNCHANGED <<conf, server, task, create_mode, wth, mth, rth, hints, expect, lastMerge>>
       ELSE /\ lastOp' = OpRec("closed", "", None, FALSE)
            /\ UNCHANGED <<conf, server, task, create_mode, dir, files, hints, keydir, stats, merged,
                           active_fileid, written_bytes, writer_file, wcache, readers,
                           wth, mth, rth, expect, lastMerge, created>>

OpenPut == Running /\ \E k \in Keys, v \in Values : Put(k, v)

OpenDelete == Running /\ \E k \in Keys : Delete(k)

OpenMerge == Running /\ Merge

NextOpen ==
    \/ OpenPut
    \/ OpenDelete
    \/ OpenMerge
    \/ HintDamage
    \/ OpenTry

SpecOpen == Init /\ [][NextOpen]_vars

----------------------------------------------------------------------------
(* The engine with values of max_file_size that the active file reaches
   exactly: one put, or a put and a delete of the same key *)

RollConfigs ==
    {[concurrency |-> 1, max_file_size |-> EntryLen("a", Some("x")),
      trig_frag |-> <<0, 1>>, trig_dead_bytes |-> 1000, thr_frag |-> <<2, 5>>,
      thr_dead_bytes |-> 1000, thr_small_file |-> 0],
     [concurrency |-> 1,
      max_file_size |-> EntryLen("a", Some("x")) + EntryLen("a", None),
      trig_frag |-> <<0, 1>>, trig_dead_bytes |-> 1000, thr_frag |-> <<2, 5>>,
      thr_dead_bytes |-> 1000, thr_small_file |-> 0]}

InitRoll ==
    /\ create_mode = "truncate"
    /\ Opened(RollConfigs)

SpecRoll == InitRoll /\ [][Next]_vars

----------------------------------------------------------------------------
(* The engine with a merge window and with triggers that the statistics reach
   exactly; the time of day of a check is the clock *)

TrigConfigs ==
    {[concurrency |-> 1, max_file_size |-> 60, window |-> <<0, 3>>,
      trig_frag |-> <<1, 1>>, trig_dead_bytes |-> EntryLen("a", None),
      thr_frag |-> <<2, 5>>, thr_dead_bytes |-> 1000, thr_small_file |-> 0],
     [concurrency |-> 1, max_file_size |-> 60, window |-> <<1, 4>>,
      trig_frag |-> <<1, 2>>, trig_dead_bytes |-> 1000,
      thr_frag |-> <<2, 5>>, thr_dead_bytes |-> 1000, thr_small_file |-> 0]}

(* conf.merge.window.contains(&now) *)
InWindow(now) == conf.window[1] <= now /\ now < conf.window[2]

(* one check of merge_on_interval: Writer::merge runs when can_merge says so *)
MergeCheck ==
    /\ clock < MaxOps
    /\ IF InWindow(clock) /\ can_merge
       THEN Merge
       ELSE /\ clock' = clock + 1
            /\ lastOp' = OpRec("check", "", None, FALSE)
            /\ UNCHANGED <<conf, server, task, create_mode, dir, files, hints, keydir, stats, merged,
                           active_fileid, written_bytes, writer_file, wcache, readers,
                           wth, mth, rth, expect, lastMerge, created>>

InitTrig ==
    /\ create_mode = "truncate"
    /\ Opened(TrigConfigs)

NextTrig ==
    \/ \E k \in Keys, v \in Values : Put(k, v)
    \/ \E k \in Keys : Delete(k)
    \/ MergeCheck

SpecTrig == InitTrig /\ [][NextTrig]_vars

----------------------------------------------------------------------------
(* The background task: merge_on_interval beside the thread that puts and
   deletes, and the drop of the Bitcask object that closes the channel the
   task listens on *)

(* everything but the task *)
engine == <<conf, create_mode, dir, files, hints, keydir, stats, merged, active_fileid,
            written_bytes, writer_file, wcache, readers, wth, mth, rth, clock, expect,
            lastOp, lastMerge, created, server>>

(* tokio::select! without `biased`: the branches that are ready when the task
   is polled, one of which is picked at random; the sleep may have elapsed
   whenever the task is polled, Shutdown::recv is ready once the sender is
   dropped *)
Select(t) == {"sleep"} \cup (IF t.signalled THEN {"recv"} ELSE {})

(* the Bitcask object is dropped: its broadcast::Sender goes, the channel is
   closed; the handles that were cloned from it stay usable *)
Drop ==
    /\ ~task.signalled
    /\ task.pc # "exited"
    /\ task' = [task EXCEPT !.signalled = TRUE]
    /\ UNCHANGED engine

(* select! resolved by the sleep: the loop goes on to Context::can_merge *)
TaskTimer ==
    /\ task.pc = "select"
    /\ mth.pc = "idle"
    /\ "sleep" \in Select(task)
    /\ task' = [task EXCEPT !.pc = "checking"]
    /\ UNCHANGED engine

(* select! resolved by Shutdown::recv: the task returns Ok *)
TaskRecv ==
    /\ task.pc = "select"
    /\ mth.pc = "idle"
    /\ "recv" \in Select(task)
    /\ task' = [task EXCEPT !.pc = "exited"]
    /\ UNCHANGED engine

(* can_merge is false: back to the head of the loop, where is_shutdown is
   false as long as recv has not returned *)
TaskSkip ==
    /\ task.pc = "checking"
    /\ ~can_merge \/ clock >= MaxOps
    /\ task' = [task EXCEPT !.pc = "select"]
    /\ UNCHANGED engine

(* can_merge is true: spawn_blocking runs Writer::merge and the task awaits
   it; the task is back in select! when the merge is over *)
TaskMerge ==
    /\ task.pc = "checking"
    /\ MergeBegin

InitShut ==
    /\ create_mode = "truncate"
    /\ Opened(ConcConfigs)

NextShut ==
    \/ \E k \in Keys, v \in Values : PutWrite(k, v)
    \/ \E k \in Keys : DeleteWrite(k)
    \/ PutInsert
    \/ DeleteRemove
    \/ Drop
    \/ TaskTimer
    \/ TaskRecv
    \/ TaskSkip
    \/ TaskMerge
    \/ MergeTurn
    \/ MergeMark
    \/ MergeRemove
    \/ MergeEnd

SpecShut == InitShut /\ [][NextShut]_vars

(* the runtime polls a task that is ready and the blocking thread runs; the
   random pick of select! does not pass over a ready branch forever *)
FairShut ==
    /\ WF_vars(TaskSkip) /\ WF_vars(TaskMerge)
    /\ WF_vars(MergeTurn) /\ WF_vars(MergeMark) /\ WF_vars(MergeRemove)
    /\ WF_vars(MergeEnd)
    /\ WF_vars(PutInsert) /\ WF_vars(DeleteRemove)
    /\ SF_vars(TaskRecv)

SpecShutFair == SpecShut /\ FairShut

----------------------------------------------------------------------------
(* The server: Context::listen, the handlers it spawns, and the end of
   Server::run *)

(* everything but the server *)
storage == <<conf, create_mode, dir, files, hints, keydir, stats, merged, active_fileid,
             written_bytes, writer_file, wcache, readers, wth, mth, rth, clock, expect,
             lastOp, lastMerge, created, task>>

(* the SemaphorePermit is dropped at the end of the statement and gives the
   permit back *)
TakePermit_dropped(p) == p

(* limit_connections.acquire().await.unwrap().forget(): the permit is taken
   and stays taken *)
TakePermit(p) == p - 1

(* Context::listen: a permit is there and is taken; Context::accept starts *)
Acquire ==
    /\ server.pc = "acquire"
    /\ server.permits > 0
    /\ server' = [server EXCEPT !.permits = TakePermit(@), !.held = TRUE,
                                !.pc = "accept", !.backoff = 1]
    /\ UNCHANGED storage

(* Context::accept returns a socket; the Handler is made and spawned *)
Accept ==
    /\ server.pc = "accept"
    /\ server' = [server EXCEPT !.handlers = @ + 1, !.held = FALSE, !.pc = "acquire"]
    /\ UNCHANGED storage

(* TcpListener::accept fails: Context::accept sleeps and doubles backoff, or
   returns the error once backoff is above MAX_BACKOFF, and Context::listen
   returns it *)
AcceptError ==
    /\ server.pc = "accept"
    /\ server' = IF server.backoff > MAX_BACKOFF
                 THEN [server EXCEPT !.pc = "stopped"]
                 ELSE [server EXCEPT !.backoff = 2 * @]
    /\ UNCHANGED storage

(* Server::run: the shutdown future completes, select! drops Context::listen
   where it waits *)
ListenDropped ==
    /\ server.pc \in {"acquire", "accept"}
    /\ server' = [server EXCEPT !.pc = "stopped"]
    /\ UNCHANGED storage

(* Handler::run returns (the client closed, an error, the shutdown signal);
   the Handler is dropped and adds one permit *)
HandlerDrop ==
    /\ server.handlers > 0
    /\ server' = [server EXCEPT !.handlers = @ - 1, !.permits = @ + 1]
    /\ UNCHANGED storage

InitServer ==
    /\ create_mode = "truncate"
    /\ Opened(Configs)

NextServer ==
    \/ Acquire
    \/ Accept
    \/ AcceptError
    \/ ListenDropped
    \/ HandlerDrop

SpecServer == InitServer /\ [][NextServer]_vars

----------------------------------------------------------------------------
(* The engine whose process may stop inside a put or a delete *)

(* the process stops between the return of Writer::write and the update of
   the KeyDir (Writer::put line 314, Writer::delete line 333); what was
   appended is in the file; Bitcask::open runs on the directory *)
Crash ==
    /\ clock < MaxOps
    /\ wth.pc = "written"
    /\ Recover
    /\ wth' = WriterIdle
    /\ clock' = clock + 1
    /\ lastOp' = OpRec("crash", wth.key, wth.value, TRUE)
    /\ UNCHANGED <<conf, server, task, create_mode, mth, rth, hints, expect, lastMerge>>

NextCrash ==
    \/ \E k \in Keys, v \in Values : PutWrite(k, v)
    \/ \E k \in Keys : DeleteWrite(k)
    \/ PutInsert
    \/ DeleteRemove
    \/ Crash

SpecCrash == Init /\ [][NextCrash]_vars

----------------------------------------------------------------------------
(* Helpers of the properties *)

RECURSIVE SumOver(_, _, _)
SumOver(st, ids, field) ==
    IF ids = {} THEN 0
    ELSE LET id == CHOOSE x \in ids : TRUE
         IN  (CASE field = "live" -> st[id].live_keys
                [] field = "dead" -> st[id].dead_keys
                [] OTHER -> st[id].dead_bytes) + SumOver(st, ids \ {id}, field)

TotalLive == SumOver(stats, DOMAIN stats, "live")
TotalDead == SumOver(stats, DOMAIN stats, "dead")

(* the step just taken was the operation op *)
Did(op) == clock' = clock + 1 /\ lastOp'.op = op

(* the on-disk length of the record a KeyDir entry points at *)
OnDiskLen(e) ==
    LET f == files[e.fileid]
        r == f[CHOOSE i \in 1..Len(f) : f[i].pos = e.pos]
    IN  EntryLen(r.key, r.value)

----------------------------------------------------------------------------
(* C1. Read-after-write: when the last operation on key k is put(k, v), get(k)
   returns v, also when the put rolled the active file over, and whatever
   merges and reopens came after it. *)
C1_ReadAfterWrite ==
    \A k \in Keys : expect[k] # None => GetResult(k) = Ok(expect[k])

(* a put has just rolled the active file over and its value is read back *)
C1_Witness ==
    /\ lastOp.op = "put"
    /\ written_bytes = 0
    /\ lastOp.key \in DOMAIN keydir
    /\ keydir[lastOp.key].fileid = active_fileid - 1
    /\ GetResult(lastOp.key) = Ok(lastOp.value)

(* C2. Read-after-delete: a delete(k) of a key that is in the KeyDir returns
   true, and the get(k) that follows returns absent. *)
C2_ReadAfterDelete ==
    [][\A k \in Keys :
          (Did("delete") /\ lastOp'.key = k /\ k \in DOMAIN keydir)
              => (lastOp'.ret = TRUE /\ GetResult(k)' = Ok(None))]_vars

(* a live key has been deleted: the delete said true and the key reads absent *)
C2_Witness ==
    /\ lastOp.op = "delete"
    /\ lastOp.ret = TRUE
    /\ GetResult(lastOp.key) = Ok(None)
    /\ \E id \in DOMAIN stats : stats[id].dead_keys >= 2

(* C3. Recovery equivalence of reads: closing and reopening the engine leaves
   the result of get(k) as it was, for every key k. *)
C3_RecoveryKeepsReads ==
    [][Did("open") => \A k \in Keys : GetResult(k)' = GetResult(k)]_vars

(* C4. Recovery equivalence of statistics: the sums of live_keys and of
   dead_keys over all segments are the same after a reopen as before it. *)
C4_RecoveryKeepsTotals ==
    [][Did("open") => (TotalLive' = TotalLive /\ TotalDead' = TotalDead)]_vars

(* C5. Merge preserves values: a merge leaves the result of get(k) as it was,
   for every key k. *)
C5_MergePreservesValues ==
    [][Did("merge") => \A k \in Keys : GetResult(k)' = GetResult(k)]_vars

(* a merge has moved a live key into its output and the key reads its value *)
C5_Witness ==
    /\ lastOp.op = "merge"
    /\ lastMerge.S # {}
    /\ DOMAIN hints # {}
    /\ \E k \in DOMAIN keydir :
          /\ keydir[k].fileid \in lastMerge.first..lastMerge.last
          /\ expect[k] # None
          /\ GetResult(k) = Ok(expect[k])

(* C6. After a merge with selected set S: no id of S has statistics, a data file
   or a hint file; every KeyDir entry that pointed into S points into a merge
   output (old active id + 1 .. last merge id); the other entries are unchanged. *)
C6_MergeRetiresSelected ==
    [][Did("merge") =>
          LET S == lastMerge'.S
          IN  /\ S \cap DOMAIN stats' = {}
              /\ S \cap dir' = {}
              /\ S \cap DOMAIN hints' = {}
              /\ DOMAIN keydir' = DOMAIN keydir
              /\ \A k \in DOMAIN keydir :
                    IF keydir[k].fileid \in S
                    THEN keydir'[k].fileid \in (active_fileid + 1)..lastMerge'.last
                    ELSE keydir'[k] = keydir[k]]_vars

(* a merge has retired a set S and repointed a key; another key stayed *)
C6_Witness ==
    /\ lastOp.op = "merge"
    /\ lastMerge.S # {}
    /\ \E k \in DOMAIN keydir : keydir[k].fileid \in lastMerge.first..lastMerge.last
    /\ \E k \in DOMAIN keydir : keydir[k].fileid < lastMerge.first

(* C7. Overwrite accounting: a put on a live key leaves the total of live_keys
   unchanged, adds one to the total of dead_keys and adds the on-disk length of
   the replaced record to dead_bytes of the segment that holds it; a put on a
   key that is not live adds one live key and no dead key. *)
C7_OverwriteAccounting ==
    [][\A k \in Keys :
          (Did("put") /\ lastOp'.key = k) =>
              IF k \in DOMAIN keydir
              THEN /\ TotalLive' = TotalLive
                   /\ TotalDead' = TotalDead + 1
                   /\ keydir[k].fileid \in DOMAIN stats'
                   /\ stats'[keydir[k].fileid].dead_bytes =
                          StatsOf(stats, keydir[k].fileid).dead_bytes
                              + OnDiskLen(keydir[k])
              ELSE /\ TotalLive' = TotalLive + 1
                   /\ TotalDead' = TotalDead]_vars

(* two keys are live, one was overwritten in an earlier segment *)
C7_Witness ==
    /\ lastOp.op = "put"
    /\ TotalLive = 2
    /\ TotalDead = 1
    /\ \E id \in DOMAIN stats : id < active_fileid /\ stats[id].dead_bytes > 0

(* C8. The ids of the segments one engine instance creates (by rollover, as merge
   outputs, as the new active segment after a merge) are strictly increasing, so
   no id is created twice, also after a merge that stopped with an error. *)
C8_SegmentIdsIncrease ==
    \A i, j \in DOMAIN created : i < j => created[i] < created[j]

(* C9. Once put(k, v) has returned, a get(k) that starts afterwards returns v
   or the value of a later put of k, or absent after a later delete of k has
   started; it returns no older value and does not fail. *)
C9_GetSeesLastPut ==
    \A t \in RThreads :
        rth[t].pc = "done" =>
            \E v \in rth[t].acc : rth[t].res = Ok(v)

(* C10. While one thread overwrites and deletes keys and several threads call
   get, a get of k returns no error, returns the value k had before the write
   under way or the one after it (so never absent when k was live throughout)
   and returns it from a record of k, not of another key. *)
C10_GetSeesPreOrPost ==
    \A t \in RThreads :
        rth[t].pc = "done" =>
            /\ rth[t].res.ok
            /\ rth[t].res.value \in rth[t].acc
            /\ rth[t].rkey = rth[t].key

(* C11. Every KeyDir entry (fileid, pos, len) of a key k refers to a record
   that is on disk in the data file fileid, in a file that is linked in the
   directory, whose key is k and whose value is present. *)
C11_KeyDirValid ==
    \A k \in DOMAIN keydir :
        /\ keydir[k].fileid \in dir
        /\ \E i \in RecsAt(files[keydir[k].fileid], keydir[k].len, keydir[k].pos) :
             /\ files[keydir[k].fileid][i].key = k
             /\ files[keydir[k].fileid][i].value # None

(* the records of the data file s that no KeyDir entry refers to, and the sum
   of the on-disk lengths of the records idx of recs *)
Unreferenced(s) ==
    {i \in 1..Len(files[s]) :
        ~\E k \in DOMAIN keydir :
            /\ keydir[k].fileid = s
            /\ keydir[k].pos = files[s][i].pos
            /\ keydir[k].len = files[s][i].len}

RECURSIVE SumLens(_, _)
SumLens(recs, idx) ==
    IF idx = {} THEN 0
    ELSE LET i == CHOOSE x \in idx : TRUE
         IN  recs[i].len + SumLens(recs, idx \ {i})

(* C12. When no put, delete or merge is in flight, for every segment s
   live_keys[s] is the number of KeyDir entries in s, dead_keys[s] the number
   of records of s that no KeyDir entry refers to, dead_bytes[s] the sum of
   their on-disk lengths, and live_keys is never below zero; a segment without
   statistics counts as all zero, and there are no statistics of a segment
   that is gone. *)
C12_StatsMatch ==
    /\ DOMAIN stats \subseteq dir
    /\ \A s \in dir :
        /\ StatsOf(stats, s).live_keys >= 0
        /\ StatsOf(stats, s).live_keys =
               Cardinality({k \in DOMAIN keydir : keydir[k].fileid = s})
        /\ StatsOf(stats, s).dead_keys = Cardinality(Unreferenced(s))
        /\ StatsOf(stats, s).dead_bytes = SumLens(files[s], Unreferenced(s))

(* after a delete: a segment that was rolled over holds a live and a dead
   record, the active segment holds the tombstone *)
C12_Witness ==
    /\ lastOp.op = "delete"
    /\ StatsOf(stats, active_fileid).dead_bytes > 0
    /\ \E s \in dir :
        /\ s # active_fileid
        /\ StatsOf(stats, s).live_keys > 0
        /\ StatsOf(stats, s).dead_keys > 0

(* C13. The active id always names the one file the appender writes to; a put
   or a delete appends one record to that file and to no other; the content of
   every other data file stays as it is for as long as the file exists. *)
C13_SingleActiveSegment ==
    [][/\ writer_file' = active_fileid'
       /\ (Did("put") \/ Did("delete")) =>
              /\ writer_file = active_fileid
              /\ Len(files'[active_fileid]) = Len(files[active_fileid]) + 1
       /\ \A id \in DOMAIN files \cap DOMAIN files' :
              files'[id] # files[id] =>
                  /\ id = active_fileid
                  /\ Did("put") \/ Did("delete")
                  /\ SubSeq(files'[id], 1, Len(files[id])) = files[id]]_vars

(* a put went to the active segment while an older segment holds records *)
C13_Witness ==
    /\ lastOp.op = "put"
    /\ written_bytes > 0
    /\ \E id \in dir : id < active_fileid /\ files[id] # <<>>

(* C14. A put or delete (with its rollover) and a merge are never in flight
   together: between the start and the end of a merge no put or delete starts
   or moves, and while a put or delete is in flight no merge starts. *)
C14_WriterExclusive ==
    [][/\ ~(wth'.pc # "idle" /\ mth'.pc # "idle")
       /\ mth.pc # "idle" => wth' = wth
       /\ wth.pc # "idle" => mth' = mth]_vars

(* a merge is in its loop while the budget would still allow a put *)
C14_Witness ==
    /\ mth.pc = "loop"
    /\ mth.rest # <<>>
    /\ wth.pc = "idle"
    /\ clock < MaxOps

(* C15. A delete of a key that is not in the KeyDir returns false and leaves
   the KeyDir as it is, yet appends a tombstone of the key to the active file
   and adds one to the active file's dead_keys and the tombstone's on-disk
   length to its dead_bytes; no KeyDir entry refers to a tombstone. *)
C15_DeleteAbsent ==
    [][(Did("delete") /\ lastOp'.key \notin DOMAIN keydir) =>
          /\ lastOp'.ret = FALSE
          /\ keydir' = keydir
          /\ files'[active_fileid] =
                 Append(files[active_fileid],
                        [pos |-> FileLen(files[active_fileid]),
                         len |-> EntryLen(lastOp'.key, None),
                         tstamp |-> timestamp, key |-> lastOp'.key, value |-> None])
          /\ StatsOf(stats', active_fileid).dead_keys =
                 StatsOf(stats, active_fileid).dead_keys + 1
          /\ StatsOf(stats', active_fileid).dead_bytes =
                 StatsOf(stats, active_fileid).dead_bytes + EntryLen(lastOp'.key, None)
          /\ StatsOf(stats', active_fileid).live_keys =
                 StatsOf(stats, active_fileid).live_keys
          /\ \A k \in DOMAIN keydir' :
                 \A i \in RecsAt(files'[keydir'[k].fileid], keydir'[k].len, keydir'[k].pos) :
                     files'[keydir'[k].fileid][i].value # None]_vars

(* put(k, v), delete(k) = true, delete(k) = false: the put record and both
   tombstones are dead, another key is live *)
C15_Witness ==
    /\ lastOp.op = "delete"
    /\ lastOp.ret = FALSE
    /\ TotalDead >= 3
    /\ keydir # EmptyMap

(* C16. The set S of files a merge selects does not contain the file that is
   active when the merge starts. *)
C16_MergeSparesActive ==
    [][Did("merge") => active_fileid \notin lastMerge'.S]_vars

(* the file of the entry a get has looked up is still linked when the get
   comes to open it *)
EntryFileLinked ==
    \A t \in RThreads : rth[t].pc = "found" => rth[t].e.fileid \in dir

(* C17. A get of a live key that reads while a merge is under way returns the
   key's value and does not fail, with the entry from before the merge or with
   the repointed one, and the file of the entry it looked up is never one the
   merge has unlinked. *)
C17_GetDuringMerge ==
    /\ EntryFileLinked
    /\ \A t \in RThreads :
        (rth[t].pc = "done" /\ mth.pc # "idle" /\ None \notin rth[t].acc) =>
            /\ rth[t].res.ok
            /\ rth[t].res.value # None
            /\ rth[t].res.value \in rth[t].acc

(* the KeyDir is updated only after the record is in the active file *)
AppendBeforeKeyDir ==
    wth.pc = "written" =>
        \E f \in DOMAIN files : \E i \in DOMAIN files[f] :
            /\ files[f][i].key = wth.key
            /\ files[f][i].value = wth.value
            /\ files[f][i].tstamp = clock

(* C18. A put or delete appends its record before it updates the KeyDir, and
   when the process stops between the two, the KeyDir that recovery builds is
   as if the operation had completed: get returns the value of the put, and a
   deleted key is absent. *)
C18_CrashCompletesWrite ==
    [][/\ AppendBeforeKeyDir
       /\ \A k \in Keys :
            (wth.pc = "written" /\ Did("crash") /\ wth.key = k)
                => GetResult(k)' = Ok(wth.value)]_vars

(* C19. During a merge every selected id is in the merged set before the
   statistics of a selected file are removed and before its hint file or its
   data file is unlinked. *)
C19_MergedBeforeUnlink ==
    [][mth.pc # "idle" =>
         \A id \in mth.S :
            (\/ id \in DOMAIN stats /\ id \notin DOMAIN stats'
             \/ id \in DOMAIN hints /\ id \notin DOMAIN hints'
             \/ id \in dir /\ id \notin dir')
            => mth.S \subseteq merged]_vars

C19_Witness ==
    /\ mth.pc = "remove"
    /\ mth.todo # {}
    /\ mth.todo # mth.S
    /\ mth.S \subseteq merged
    /\ mth.S \ mth.todo # {}
    /\ (mth.S \ mth.todo) \cap dir = {}
    /\ mth.todo \subseteq dir

(* C20. The output of a merge and the output of put and delete never share a
   file: a merge writes to ids from old_active + 1 on and leaves the active id
   at last_merge_id + 1, the files a merge creates are new, and put and delete
   write into no file whose id a merge used as an output. *)
C20_MergeOutputApart ==
    [][/\ Did("merge") =>
            /\ lastMerge'.first = active_fileid + 1
            /\ active_fileid' = lastMerge'.last + 1
       /\ \A id \in lastMerge'.outs \ lastMerge.outs :
            /\ id > active_fileid
            /\ id \notin dir
       /\ (Did("put") \/ Did("delete")) => active_fileid' \notin lastMerge.outs
       /\ lastMerge.outs \subseteq lastMerge'.outs]_vars

(* the merge output file M holds live records only, each with its hint *)
OnlyLive(M, kd, fs, st, hs) ==
    /\ M \in DOMAIN fs
    /\ M \in DOMAIN hs
    /\ \A i \in DOMAIN fs[M] :
          /\ fs[M][i].value # None
          /\ Cardinality({k \in DOMAIN kd :
                            /\ kd[k].fileid = M
                            /\ kd[k].pos = fs[M][i].pos
                            /\ kd[k].len = fs[M][i].len
                            /\ fs[M][i].key = k}) = 1
    /\ Cardinality({k \in DOMAIN kd : kd[k].fileid = M}) = Len(fs[M])
    /\ StatsOf(st, M).live_keys = Len(fs[M])
    /\ StatsOf(st, M).dead_keys = 0
    /\ StatsOf(st, M).dead_bytes = 0
    /\ Len(hs[M]) = Len(fs[M])
    /\ \A i \in DOMAIN fs[M] :
          /\ hs[M][i].key = fs[M][i].key
          /\ hs[M][i].pos = fs[M][i].pos
          /\ hs[M][i].len = fs[M][i].len
          /\ hs[M][i].tstamp = fs[M][i].tstamp

(* C21. Right after a successful merge every output segment M holds live
   records only: each record of M is referenced by exactly one KeyDir entry,
   live_keys of M is the number of its records, dead_keys and dead_bytes of M
   are 0, no record of M is a tombstone, and the hint file of M has one hint
   per record of M. *)
C21_MergeOutputLive ==
    [][Did("merge") =>
         \A M \in lastMerge'.first..lastMerge'.last :
            /\ M \in dir'
            /\ OnlyLive(M, keydir', files', stats', hints')]_vars

(* a merge left two records in its output *)
C21_Witness ==
    /\ lastOp.op = "merge"
    /\ \E M \in lastMerge.first..lastMerge.last :
          /\ M \in dir
          /\ StatsOf(stats, M).live_keys >= 1
          /\ TotalDead = 0
    /\ Cardinality({k \in DOMAIN keydir :
                      keydir[k].fileid \in lastMerge.first..lastMerge.last}) = 2

(* the KeyDir entries whose records are in the file M *)
EntriesIn(kd, M) == [k \in {x \in DOMAIN kd : kd[x].fileid = M} |-> kd[k]]

(* C22. Hint round trip: when the engine is closed and reopened right after a
   merge, the KeyDir entries rebuilt from the hint file of each output segment
   of the merge are equal (key, segment id, pos, len, timestamp) to those the
   merge installed for that segment, and get returns for these keys what it
   returned before the close. *)
C22_HintRoundTrip ==
    [][(lastOp.op = "merge" /\ Did("open")) =>
         \A M \in lastMerge.first..lastMerge.last :
            /\ M \in DOMAIN hints
            /\ populate_keydir_with_hintfile(
                   [keydir |-> EmptyMap, stats |-> EmptyMap], M, hints[M]).keydir
                 = EntriesIn(keydir, M)
            /\ EntriesIn(keydir', M) = EntriesIn(keydir, M)
            /\ \A k \in DOMAIN EntriesIn(keydir, M) :
                  GetResult(k)' = GetResult(k)]_vars

(* reopened right after a merge; the keys of its output are read back *)
C22_Witness ==
    /\ lastOp.op = "open"
    /\ lastMerge.S # {}
    /\ clock = MaxOps
    /\ \E M \in lastMerge.first..lastMerge.last :
          /\ M \in DOMAIN hints
          /\ Len(hints[M]) >= 1
          /\ \A k \in DOMAIN EntriesIn(keydir, M) :
                GetResult(k) # Ok(None) /\ GetResult(k) # Err
    /\ Cardinality({k \in DOMAIN keydir :
                      keydir[k].fileid \in lastMerge.first..lastMerge.last}) >= 1
    /\ active_fileid = lastMerge.last + 2

(* the capacity of the reader queue *)
Capacity == Max({conf.concurrency, 1})

(* the threads whose get holds a Reader *)
InFlight == {t \in RThreads : rth[t].pc \in {"found", "done"}}

(* C23. Reader pool conservation: the pool has N = max(concurrency, 1) reader
   contexts; at every moment the contexts in the queue and those held by gets
   in flight are N together, so at most N gets read at once, the push back
   into the queue finds room, and every get returns its reader to the queue,
   whether the read returned a value, absent or an error. *)
C23_PoolConserved ==
    [][/\ Len(readers) + Cardinality(InFlight) = Capacity
       /\ Len(readers') + Cardinality(InFlight') = Capacity
       /\ Cardinality(InFlight') <= Capacity
       /\ \A t \in RThreads :
             (rth[t].pc = "done" /\ rth'[t].pc = "idle") =>
                 /\ Len(readers) < Capacity
                 /\ readers' = Append(readers, rth[t].cache)
       /\ \A t \in RThreads :
             (rth[t].pc \in {"found", "done"} /\ rth'[t].pc \notin {"found", "done"})
                 => rth'[t].pc = "idle" /\ Len(readers') = Len(readers) + 1]_vars

(* the one Reader is held by a get whose read failed, the queue is empty and
   the other thread has not had its get yet *)
C23_Witness ==
    /\ conf.concurrency = 0
    /\ readers = <<>>
    /\ \E t, u \in RThreads :
          /\ rth[t].pc = "done"
          /\ rth[t].res = Err
          /\ rth[u].pc = "idle"
          /\ rth[u].gets = 0

(* a get in its loop stays there until it has a Reader *)
KeepsSpinning ==
    [][\A t \in RThreads :
          rth[t].pc = "spin" =>
              /\ rth'[t].pc \in {"spin", "found", "done"}
              /\ rth'[t].pc = "spin" => rth'[t].key = rth[t].key]_vars

(* C24. Get liveness: with N reader contexts and more than N threads that call
   get, a get that finds the queue empty goes on spinning (it neither blocks
   nor gives up) and, when every read in flight ends and the scheduling is fair,
   obtains a reader and returns. *)
C24_GetReturns ==
    /\ KeepsSpinning
    /\ \A t \in RThreads :
          (rth[t].pc = "spin" /\ readers = <<>>) ~> (rth[t].pc = "idle")

(* a get has spun on the empty queue while the other thread reads *)
C24_Witness ==
    /\ Cardinality(RThreads) > Capacity
    /\ \E t, u \in RThreads :
          /\ rth[t].pc = "spin"
          /\ rth[t].step = SpinLimit
          /\ rth[u].pc = "found"
          /\ readers = <<>>

(* C25. After recovery the active segment id is the largest segment id of the
   directory plus one, or 0 when the directory holds no segment; a new, empty
   active segment is created for that id and no segment that was there is
   opened for appending. *)
C25_RecoveryActiveId ==
    [][/\ clock = 0 =>
            /\ active_fileid = 0
            /\ writer_file = 0
            /\ dir = {0}
            /\ files[0] = <<>>
       /\ Did("open") =>
            /\ dir # {}
            /\ active_fileid' = Max(dir) + 1
            /\ active_fileid' \notin dir
            /\ dir' = dir \cup {active_fileid'}
            /\ files'[active_fileid'] = <<>>
            /\ writer_file' = active_fileid'
            /\ written_bytes' = 0
            /\ \A id \in dir : files'[id] = files[id]]_vars

(* reopened over three segments with records, the last one not full *)
C25_Witness ==
    /\ lastOp.op = "open"
    /\ clock > 0
    /\ active_fileid >= 3
    /\ files[active_fileid] = <<>>
    /\ \A id \in dir \ {active_fileid} : files[id] # <<>>
    /\ FileLen(files[active_fileid - 1]) <= conf.max_file_size

(* the places <<fileid, index>> of the records of key in the files of d *)
RecordsOf(key, d, fs) ==
    UNION {{<<id, i>> : i \in {j \in DOMAIN fs[id] : fs[id][j].key = key}} : id \in d}

(* the place in ps with the highest (segment id, offset) *)
Latest(ps, fs) ==
    CHOOSE p \in ps :
        \A q \in ps : \/ q[1] < p[1]
                      \/ q[1] = p[1] /\ fs[q[1]][q[2]].pos <= fs[p[1]][p[2]].pos

(* the KeyDir entry of key points at the record at place p *)
PointsAt(kd, key, p, fs) ==
    /\ kd[key].fileid = p[1]
    /\ kd[key].pos = fs[p[1]][p[2]].pos
    /\ kd[key].len = fs[p[1]][p[2]].len
    /\ kd[key].tstamp = fs[p[1]][p[2]].tstamp

(* C26. Recovery goes through the segments in ascending id order and a record
   of a key met later replaces the KeyDir entry of an earlier one, so after
   recovery each key of the KeyDir points at its record with the highest
   (segment id, offset), and each replaced entry is counted as an overwrite on
   the segment that held it. *)
C26_RecoveryLatestWins ==
    [][Did("open") =>
         \A k \in DOMAIN keydir' :
            /\ RecordsOf(k, dir, files) # {}
            /\ PointsAt(keydir', k, Latest(RecordsOf(k, dir, files), files), files)]_vars

(* C27. For each segment recovery uses the hint file if there is one and the
   data file only when the hint file is not found; it never applies both for
   one segment, and an error other than hint file not found makes open fail
   instead of falling back to the data file. *)
C27_HintOrData ==
    [][(clock' = clock + 1 /\ lastOp'.op \in {"open", "closed"}) =>
         IF \E id \in dir \cap DOMAIN hints : hints[id] = Unreadable
         THEN /\ lastOp'.op = "closed"
              /\ keydir' = keydir
              /\ dir' = dir
         ELSE LET used == rebuild_storage.used
              IN  /\ lastOp'.op = "open"
                  /\ keydir' = rebuild_storage.keydir
                  /\ stats' = rebuild_storage.stats
                  /\ Len(used) = Cardinality(dir)
                  /\ \A id \in dir :
                        StatsOf(stats', id).live_keys + StatsOf(stats', id).dead_keys
                            = Len(files[id])
                  /\ \A id \in dir :
                        \E i \in DOMAIN used :
                           /\ used[i] = <<id, IF id \in DOMAIN hints THEN "hint"
                                                                     ELSE "data">>
                           /\ \A j \in DOMAIN used : used[j][1] = id => j = i]_vars

(* open failed over a hint file that cannot be read although the data file
   beside it holds the record of a live key *)
C27_Witness ==
    /\ lastOp.op = "closed"
    /\ \E id \in dir \cap DOMAIN hints :
          /\ hints[id] = Unreadable
          /\ files[id] # <<>>
          /\ \E k \in DOMAIN keydir : keydir[k].fileid = id
    /\ \E id \in dir : id \notin DOMAIN hints

(* the record a completed put or delete appended to the segment that was
   active when it started *)
Written == files'[active_fileid][Len(files'[active_fileid])]

(* C28. Rollover is the last step of a write and happens exactly when the bytes
   written to the active segment, the appended record included, exceed
   max_file_size: the record that causes it is in the old segment, its KeyDir
   entry and its statistics belong to the old segment id, the byte counter is
   0 afterwards and the new active id is the old id plus one; so after every
   completed put or delete written_bytes <= max_file_size. *)
C28_RolloverLast ==
    [][(Did("put") \/ Did("delete")) =>
         /\ active_fileid \in DOMAIN files'
         /\ files'[active_fileid] = Append(files[active_fileid], Written)
         /\ Written.key = lastOp'.key
         /\ Written.value = lastOp'.value
         /\ Written.pos = written_bytes
         /\ Did("put") => /\ keydir'[lastOp'.key].fileid = active_fileid
                          /\ keydir'[lastOp'.key].pos = Written.pos
                          /\ keydir'[lastOp'.key].len = Written.len
         /\ StatsOf(stats', active_fileid).live_keys
              + StatsOf(stats', active_fileid).dead_keys
              = StatsOf(stats, active_fileid).live_keys
                  + StatsOf(stats, active_fileid).dead_keys + 1
         /\ IF written_bytes + Written.len > conf.max_file_size
            THEN /\ active_fileid' = active_fileid + 1
                 /\ written_bytes' = 0
                 /\ active_fileid' \notin dir
                 /\ files'[active_fileid'] = <<>>
                 /\ active_fileid' \notin DOMAIN stats'
            ELSE /\ active_fileid' = active_fileid
                 /\ written_bytes' = written_bytes + Written.len
         /\ written_bytes' <= conf.max_file_size]_vars

(* a delete filled the active segment to max_file_size exactly and it stays
   active; the put before it did not roll over either *)
C28_Witness ==
    /\ lastOp.op = "delete"
    /\ written_bytes = conf.max_file_size
    /\ Len(files[active_fileid]) = 2
    /\ active_fileid >= 1
    /\ files[active_fileid - 1] # <<>>
    /\ FileLen(files[active_fileid - 1]) > conf.max_file_size

(* a segment has dead_bytes above the trigger or a fraction of dead keys above
   the trigger fraction *)
TriggerMet ==
    \E id \in DOMAIN stats :
        \/ stats[id].dead_bytes > conf.trig_dead_bytes
        \/ /\ stats[id].dead_keys > 0
           /\ stats[id].dead_keys * conf.trig_frag[2]
                > conf.trig_frag[1] * (stats[id].dead_keys + stats[id].live_keys)

(* C29. The background task starts a merge at a check only if the local time
   is inside the merge window and a segment has dead_bytes above the trigger
   value or fragmentation above the trigger fraction; when no segment meets a
   trigger, or the time is outside the window, no merge runs at that check. *)
C29_MergeTrigger ==
    [][/\ (Did("merge") \/ Did("error")) =>
            /\ conf.window[1] <= clock
            /\ clock < conf.window[2]
            /\ TriggerMet
       /\ Did("check") =>
            /\ ~(conf.window[1] <= clock /\ clock < conf.window[2] /\ TriggerMet)
            /\ files' = files
            /\ dir' = dir
            /\ hints' = hints
            /\ keydir' = keydir
            /\ stats' = stats
            /\ active_fileid' = active_fileid
            /\ lastMerge' = lastMerge]_vars

(* a check inside the window ran no merge: a segment has dead bytes, but as
   many as the trigger value or half of its keys dead, not more *)
C29_Witness ==
    /\ lastOp.op = "check"
    /\ conf.window[1] <= clock - 1
    /\ clock - 1 < conf.window[2]
    /\ \E id \in DOMAIN stats :
          \/ stats[id].dead_bytes = conf.trig_dead_bytes
          \/ /\ stats[id].dead_keys > 0
             /\ stats[id].dead_keys * conf.trig_frag[2]
                  = conf.trig_frag[1] * (stats[id].dead_keys + stats[id].live_keys)

(* the segment id meets one of the three thresholds *)
Qualifies(id) ==
    \/ StatsOf(stats, id).dead_bytes > conf.thr_dead_bytes
    \/ /\ StatsOf(stats, id).dead_keys > 0
       /\ StatsOf(stats, id).dead_keys * conf.thr_frag[2]
            > conf.thr_frag[1]
                * (StatsOf(stats, id).dead_keys + StatsOf(stats, id).live_keys)
    \/ FileLen(files[id]) < conf.thr_small_file

(* C30. A segment is in the merge set exactly when its dead_bytes exceed the
   dead-bytes threshold, or its fragmentation exceeds the fragmentation
   threshold, or its data file is smaller than the small-file threshold; a
   segment that meets none of the three is not in it. *)
C30_MergeSetExact ==
    [][Did("merge") => lastMerge'.S = {id \in dir : Qualifies(id)}]_vars

(* C31. Once the Bitcask object is dropped the background task starts no merge
   any more: a signal that arrives while the task sleeps ends the task, and a
   signal that arrives while a merge runs lets this merge end (the task does
   not exit inside it) and no other one start. *)
C31_ShutdownStopsMerges ==
    [][/\ task.signalled => ~(mth.pc = "idle" /\ mth'.pc # "idle")
       /\ mth.pc # "idle" => task'.pc # "exited"]_vars

(* once the Bitcask object is dropped the task exits, after the merge that
   runs if one does *)
C31_TaskExits == task.signalled ~> (task.pc = "exited" /\ mth.pc = "idle")

(* C32. After a merge that an I/O error stopped (at the creation of an output
   or hint file, at the copy of a record, at an unlink), get(k) returns the last
   written value of every live key, whatever puts, deletes and rollovers come
   later, and a key deleted later reads absent. *)
C32_AbortKeepsServing ==
    [][task'.logged =>
          \A k \in Keys :
             /\ expect'[k] # None => GetResult(k)' = Ok(expect'[k])
             /\ (Did("delete") /\ lastOp'.key = k) => GetResult(k)' = Ok(None)]_vars

(* a step in which the background task runs Writer::merge, to its end or to
   an error *)
MergeAttempt ==
    /\ clock' = clock + 1
    /\ lastOp'.op \in {"merge", "error"}
    /\ lastOp'.key = ""

(* C33. A merge that returns an error is logged and ends the background task:
   once an error of a merge was logged, the task attempts no merge any more
   (puts, deletes and gets go on). *)
C33_ErrorEndsTask == [][task.logged => ~MergeAttempt]_vars

(* C34. A put or a delete that returns an error leaves the KeyDir, the
   statistics, the active file id and the count of bytes written as they were
   before the call, and the active id names the file the writer appends to. *)
C34_FailedWriteChangesNothing ==
    [][(Did("error") /\ lastOp'.key # "") =>
          /\ keydir' = keydir
          /\ stats' = stats
          /\ active_fileid' = active_fileid
          /\ written_bytes' = written_bytes
          /\ active_fileid' = writer_file']_vars

(* the get of thread t holds the Ref of key *)
HoldsRef(t, key) == rth[t].pc = "found" /\ rth[t].key = key

(* C35. No deadlock among the threads that get, put and delete and the merge:
   a get that holds a Ref, or that has its result, can always take its next
   step; a put or a delete that holds the writer lock can take its next step
   or waits for the shard of its key, whose Ref a get holds; the merge can take
   its next step or waits for the shard of its next key, whose Ref a get
   holds. So every wait ends at a thread that can run. *)
C35_NoDeadlock ==
    /\ \A t \in RThreads :
          /\ rth[t].pc = "found" => ENABLED GetRead(t)
          /\ rth[t].pc = "done" => ENABLED GetReturn(t)
    /\ wth.pc = "written" =>
          \/ ENABLED (PutInsert \/ DeleteRemove)
          \/ \E t \in RThreads : HoldsRef(t, wth.key)
    /\ mth.pc # "idle" =>
          \/ ENABLED (MergeTurn \/ MergeMark \/ MergeRemove \/ MergeEnd)
          \/ /\ mth.pc = "loop"
             /\ mth.rest # <<>>
             /\ \E t \in RThreads : HoldsRef(t, Head(mth.rest))

(* the merge waits in its loop for a shard whose Ref a get holds, while the
   other thread is inside a get too *)
C35_Witness ==
    /\ mth.pc = "loop"
    /\ mth.rest # <<>>
    /\ ~ENABLED MergeTurn
    /\ \E t \in RThreads : HoldsRef(t, Head(mth.rest))
    /\ \A t \in RThreads : rth[t].pc # "idle"

(* C36. Every KeyDir entry names a segment whose id is at most the active id
   and, when no merge is under way, is not in the merged set; a file that is
   created for new records never takes an id that is in the merged set. *)
C36_EntriesBelowActive ==
    [][/\ \A k \in DOMAIN keydir' :
             /\ keydir'[k].fileid <= active_fileid'
             /\ mth'.pc = "idle" => keydir'[k].fileid \notin merged'
       /\ NewOuts(created, created') \cap merged = {}]_vars

(* C37. The handlers alive at once are never more than MAX_CONNECTIONS: the
   listener takes one permit before each accept, a handler gives one back when
   it is dropped, so the permits in the semaphore, the handlers alive and the
   permit taken for an accept that has not produced a handler add up to
   MAX_CONNECTIONS. *)
C37_ConnectionLimit ==
    /\ server.handlers <= MAX_CONNECTIONS
    /\ server.permits >= 0
    /\ server.permits + server.handlers + (IF server.held THEN 1 ELSE 0)
          = MAX_CONNECTIONS

(* MAX_CONNECTIONS handlers are alive and the listener waits for a permit *)
C37_Witness ==
    /\ server.handlers = MAX_CONNECTIONS
    /\ server.permits = 0
    /\ server.pc = "acquire"
    /\ ~ENABLED Acquire

====
